---------------------------- MODULE Spec2Model ----------------------------
(***************************************************************************)
(* One invocation of the Lambda handler of flight-booking-automation.      *)
(* Two handlers exist in the repository: the screenshot-only handler of    *)
(* src/src/index.ts and the handler with the validation battery and the    *)
(* testResults report of src/unnamed/part_001.  `impl` says which one the  *)
(* invocation runs.  The browser engine, the storage backend and the       *)
(* scratch filesystem are collaborators: each call to them succeeds or     *)
(* throws, chosen by the environment when the call is made, and `calls`    *)
(* records every call made to the browser engine, fs.readFile/access and   *)
(* S3, in order.                                                           *)
(***************************************************************************)
EXTENDS Integers, Sequences, FiniteSets, TLC

\* ------------------------------------------------------------------ bounds
\* Largest value Date.now() returns in the model (milliseconds since start).
MaxClock == 2

\* ------------------------------------------------------- program constants
NULL == "null"

PARAMETERS ==
    [url      |-> "https://flights.aegeanair.com/en/flights-from-istanbul-to-athens",
     selector |-> "div[data-em-cmp=\"flights-booking\"]"]

dirs == <<"/tmp", "/tmp/screenshots", "/tmp/.cache">>

screenshotPath == "/tmp/screenshots/flight-booking-component.png"

DefaultBucket == "technical-playwright-result"

\* The image an invocation's element screenshot renders.
Png(invocation) == "png of the " \o invocation

\* The second invocation before it is made.
PeerIdle == [pc |-> "idle", fileContent |-> NULL, uploaded |-> NULL]

\* Values of process.env.AWS_S3_BUCKET: unset, or a configured bucket.
BucketValues == {NULL, "my-bucket"}

\* Values of process.env.PREFIX: unset, or a configured filename prefix.
PrefixValues == {NULL, "qa"}

\* The handlers of the repository.
Impls == {"index", "part_001"}

VARIABLES
    impl,                  \* which handler runs
    env,                   \* process.env
    pc,                    \* position of the handler (its next await)
    dirIdx,                \* ensureDirectoriesExist: index of `dir` in dirs
    checkIdx,              \* validation battery: the try block being run
    probeIdx,              \* validation battery: the expect() awaited in it
    clock,                 \* last value Date.now() returned
    startTime,             \* const startTime
    stageStart,            \* screenshotStartTime / validateFormStartTime
    browser,               \* let browser
    bookingComponent,      \* const bookingComponent / element
    filename,              \* const filename, as the pieces of the string
    fileContent,           \* const fileContent
    screenshotUrl,         \* let screenshotUrl
    statusCode,            \* let statusCode
    message,               \* let message
    testResults,           \* const testResults: TestResult[]
    totalExecutionTimeMs,  \* let totalExecutionTimeMs
    calls,                 \* collaborator calls made so far, in order
    response,              \* the values the handler returned: none, then one
    scratch,               \* the bytes of the file at screenshotPath
    peer                   \* a second invocation sharing /tmp: its capture steps

vars == <<impl, env, pc, dirIdx, checkIdx, probeIdx, clock, startTime, stageStart, browser,
          bookingComponent, filename, fileContent, screenshotUrl, statusCode,
          message, testResults, totalExecutionTimeMs, calls, response,
          scratch, peer>>

\* ------------------------------------------------------------ collaborators
\* A collaborator call: the operation, what it was applied to, how it ended.
Call(op, target, result) == [op |-> op, target |-> target, result |-> result]

\* The message of the Error a failing collaborator call throws.
ErrorMessage(op, target) == op \o " failed: " \o target

\* Date.now(): any reading not before the previous one.
DateNow(t) == t .. MaxClock

\* ------------------------------------------------------------- TestResults
\* Mutant: the navigation entry is pushed without its elapsed time.
NavigateResultUntimed(ms) ==
    [name |-> "Navigate to Aegean Air website", status |-> "SUCCESS",
     details |-> "Navigated to " \o PARAMETERS.url]

NavigateResult(ms) ==
    [name |-> "Navigate to Aegean Air website", status |-> "SUCCESS",
     details |-> "Navigated to " \o PARAMETERS.url, executionTimeMs |-> ms]

LocateResult(ms) ==
    [name |-> "Locate the booking component", status |-> "SUCCESS",
     details |-> "Component '" \o PARAMETERS.selector \o "' found.",
     executionTimeMs |-> ms]

CaptureResult(url, ms) ==
    [name |-> "Capture a screenshot of the component", status |-> "SUCCESS",
     details |-> "Screenshot uploaded to S3: " \o url, executionTimeMs |-> ms]

FatalResult(errMsg) ==
    [name |-> "Fatal error during execution", status |-> "FAILURE",
     details |-> errMsg]

\* ------------------------------------------------------------------- Init
Init ==
    /\ impl \in Impls
    /\ env \in [AWS_S3_BUCKET : BucketValues, PREFIX : PrefixValues]
    /\ pc = "start"
    /\ dirIdx = 1
    /\ checkIdx = 1
    /\ probeIdx = 1
    /\ clock = 0
    /\ startTime = 0        \* not read before Start assigns it
    /\ stageStart = 0       \* not read before Screenshot assigns it
    /\ browser = NULL
    /\ bookingComponent = NULL
    /\ filename = <<>>     \* not read before Screenshot assigns it
    /\ fileContent = NULL
    /\ screenshotUrl = NULL
    /\ statusCode = 200
    /\ message = "Success"
    /\ testResults = <<>>
    /\ totalExecutionTimeMs = 0
    /\ calls = <<>>
    /\ response = <<>>
    /\ scratch = NULL
    /\ peer = PeerIdle

\* ------------------------------------------------------ the catch block
CatchStatusCode == 500

\* Mutant: the message also reports the time elapsed before the failure.
CatchMessageTimed(errMsg) ==
    "Fatal error: " \o errMsg \o " after " \o ToString(clock - startTime) \o "ms"

\* Mutant: the message does not carry the error's own message.
CatchMessageGeneric(errMsg) == "Fatal error"

CatchMessage(errMsg) == "Fatal error: " \o errMsg

\* index.ts: message = `Error: ${error.message}`
IndexCatchMessage(errMsg) == "Error: " \o errMsg

\* catch (error) of index.ts: status and message only.
IndexCatch(errMsg) ==
    /\ statusCode' = CatchStatusCode
    /\ message' = IndexCatchMessage(errMsg)
    /\ pc' = "finally"
    /\ UNCHANGED testResults

\* Mutant: the catch block sets status and message but records no entry.
HandlerCatchNoEntry(pushed, errMsg) ==
    /\ statusCode' = CatchStatusCode
    /\ message' = CatchMessage(errMsg)
    /\ testResults' = pushed
    /\ pc' = "finally"

\* Mutant: the catch block reports the fatal error alone, dropping the
\* entries recorded before it.
HandlerCatchReset(pushed, errMsg) ==
    /\ statusCode' = CatchStatusCode
    /\ message' = CatchMessage(errMsg)
    /\ testResults' = <<FatalResult(errMsg)>>
    /\ pc' = "finally"

\* catch (error) of part_001: status, message and the fatal entry, pushed
\* after the entries `pushed` so far.
HandlerCatch(pushed, errMsg) ==
    /\ statusCode' = CatchStatusCode
    /\ message' = CatchMessage(errMsg)
    /\ testResults' = Append(pushed, FatalResult(errMsg))
    /\ pc' = "finally"

\* The catch block of the handler that runs.
Catch(pushed, errMsg) ==
    IF impl = "index" THEN IndexCatch(errMsg) ELSE HandlerCatch(pushed, errMsg)

\* ------------------------------------------------- ensureDirectoriesExist
\* After the try/catch of one directory: the next directory, or return.
NextDir ==
    /\ dirIdx' = dirIdx + 1
    /\ pc' = IF dirIdx < Len(dirs) THEN "mkdir" ELSE "executablePath"

\* const startTime = Date.now(); await ensureDirectoriesExist() is entered.
Start ==
    /\ pc = "start"
    /\ IF impl = "index"
       THEN UNCHANGED <<startTime, clock>>
       ELSE \E t \in DateNow(clock) : startTime' = t /\ clock' = t
    /\ pc' = "mkdir"
    /\ UNCHANGED <<impl, env, scratch, peer, dirIdx, checkIdx, probeIdx, stageStart, browser, bookingComponent,
                   filename, fileContent, screenshotUrl, statusCode, message,
                   testResults, totalExecutionTimeMs, calls, response>>

\* Mutant: the loop body has no try/catch, so that the error of fs.mkdir or
\* fs.chmod leaves ensureDirectoriesExist and reaches the handler's catch.
DirThrowsUncaught(op) ==
    /\ Catch(testResults, ErrorMessage(op, dirs[dirIdx]))
    /\ UNCHANGED dirIdx

\* fs.mkdir or fs.chmod rejected inside the try of the loop body: control
\* passes to the catch (err) of this directory.
DirThrows(op) ==
    /\ pc' = "note"
    /\ UNCHANGED <<dirIdx, statusCode, message, testResults>>

\* await fs.mkdir(dir, {recursive: true})
Mkdir ==
    /\ pc = "mkdir"
    /\ \/ /\ pc' = "chmod"
          /\ UNCHANGED <<dirIdx, statusCode, message, testResults>>
       \/ DirThrows("mkdir")
    /\ UNCHANGED <<impl, env, scratch, peer, checkIdx, probeIdx, clock, startTime, stageStart,
                   browser, bookingComponent, filename, fileContent,
                   screenshotUrl, totalExecutionTimeMs, calls, response>>

\* await fs.chmod(dir, 0o777)
Chmod ==
    /\ pc = "chmod"
    /\ \/ NextDir /\ UNCHANGED <<statusCode, message, testResults>>
       \/ DirThrows("chmod")
    /\ UNCHANGED <<impl, env, scratch, peer, checkIdx, probeIdx, clock, startTime, stageStart,
                   browser, bookingComponent, filename, fileContent,
                   screenshotUrl, totalExecutionTimeMs, calls, response>>

\* catch (err) { console.log(`Note: Directory ${dir} ...`) }: the failure is
\* logged and the loop goes on with the next directory.
DirNote ==
    /\ pc = "note"
    /\ NextDir
    /\ UNCHANGED <<impl, env, scratch, peer, checkIdx, probeIdx, clock, startTime, stageStart,
                   browser, bookingComponent, filename, fileContent,
                   screenshotUrl, statusCode, message, testResults,
                   totalExecutionTimeMs, calls, response>>

\* ---------------------------------------------------- session acquisition
\* The call returned normally.
Returns(op, target) == calls' = Append(calls, Call(op, target, "ok"))

\* Mutant: a failure of capture or upload is recorded as fatal but the handler
\* goes on with the validation battery.
ThrowsIsolatingCapture(op, target) ==
    /\ calls' = Append(calls, Call(op, target, "throw"))
    /\ statusCode' = CatchStatusCode
    /\ message' = CatchMessage(ErrorMessage(op, target))
    /\ testResults' = Append(testResults, FatalResult(ErrorMessage(op, target)))
    /\ pc' = IF op \in {"screenshot", "readFile", "send"}
             THEN "validate" ELSE "finally"

\* Mutant: a failed call is retried instead of being passed to the catch.
ThrowsRetrying(op, target) ==
    /\ calls' = Append(calls, Call(op, target, "throw"))
    /\ UNCHANGED <<pc, statusCode, message, testResults>>

\* The call threw: control passes to the catch block of the handler.
Throws(op, target) ==
    /\ calls' = Append(calls, Call(op, target, "throw"))
    /\ Catch(testResults, ErrorMessage(op, target))

\* await chromium.executablePath()
ExecutablePath ==
    /\ pc = "executablePath"
    /\ \/ Returns("executablePath", "chromium") /\ pc' = "launch"
          /\ UNCHANGED <<statusCode, message, testResults>>
       \/ Throws("executablePath", "chromium")
    /\ UNCHANGED <<impl, env, scratch, peer, dirIdx, checkIdx, probeIdx, clock, startTime,
                   stageStart, browser, bookingComponent, filename,
                   fileContent, screenshotUrl, totalExecutionTimeMs, response>>

\* browser = await playwright.launch({...})
Launch ==
    /\ pc = "launch"
    /\ \/ Returns("launch", "playwright") /\ browser' = "browser"
          /\ pc' = "newContext"
          /\ UNCHANGED <<statusCode, message, testResults>>
       \/ Throws("launch", "playwright") /\ UNCHANGED browser
    /\ UNCHANGED <<impl, env, scratch, peer, dirIdx, checkIdx, probeIdx, clock, startTime,
                   stageStart, bookingComponent, filename, fileContent,
                   screenshotUrl, totalExecutionTimeMs, response>>

\* const context = await browser.newContext({...})
NewContext ==
    /\ pc = "newContext"
    /\ \/ Returns("newContext", "browser") /\ pc' = "newPage"
          /\ UNCHANGED <<statusCode, message, testResults>>
       \/ Throws("newContext", "browser")
    /\ UNCHANGED <<impl, env, scratch, peer, dirIdx, checkIdx, probeIdx, clock, startTime,
                   stageStart, browser, bookingComponent, filename,
                   fileContent, screenshotUrl, totalExecutionTimeMs, response>>

\* const page = await context.newPage(); page.setDefaultNavigationTimeout()
NewPage ==
    /\ pc = "newPage"
    /\ \/ Returns("newPage", "context") /\ pc' = "goto"
          /\ UNCHANGED <<statusCode, message, testResults>>
       \/ Throws("newPage", "context")
    /\ UNCHANGED <<impl, env, scratch, peer, dirIdx, checkIdx, probeIdx, clock, startTime,
                   stageStart, browser, bookingComponent, filename,
                   fileContent, screenshotUrl, totalExecutionTimeMs, response>>

\* ---------------------------------------------------------------- Navigator
\* Step 1: await page.goto(PARAMETERS.url, {...}), timed.
Goto ==
    /\ impl = "part_001"
    /\ pc = "goto"
    /\ \E navigateStartTime \in DateNow(clock) :
          \/ \E navigateEndTime \in DateNow(navigateStartTime) :
                /\ Returns("goto", PARAMETERS.url)
                /\ clock' = navigateEndTime
                /\ testResults' = Append(testResults,
                       NavigateResult(navigateEndTime - navigateStartTime))
                /\ pc' = "waitForSelector"
                /\ UNCHANGED <<statusCode, message>>
          \/ Throws("goto", PARAMETERS.url) /\ clock' = navigateStartTime
    /\ UNCHANGED <<impl, env, scratch, peer, dirIdx, checkIdx, probeIdx, startTime,
                   stageStart, browser, bookingComponent, filename,
                   fileContent, screenshotUrl, totalExecutionTimeMs, response>>

NotFoundMessage == "Flight booking component not found."

\* Step 2: await page.waitForSelector(PARAMETERS.selector, {...}), timed.  The
\* SUCCESS entry is pushed before bookingComponent is tested for null.
WaitForSelector ==
    /\ impl = "part_001"
    /\ pc = "waitForSelector"
    /\ \E locateStartTime \in DateNow(clock) :
          \/ \E locateEndTime \in DateNow(locateStartTime) :
             \E handle \in {"element", NULL} :
                /\ calls' = Append(calls, Call("waitForSelector",
                       PARAMETERS.selector, IF handle = NULL THEN "null" ELSE "ok"))
                /\ clock' = locateEndTime
                /\ bookingComponent' = handle
                /\ LET pushed == Append(testResults,
                            LocateResult(locateEndTime - locateStartTime))
                   IN IF handle = NULL
                      THEN Catch(pushed, NotFoundMessage)
                      ELSE /\ testResults' = pushed
                           /\ pc' = "screenshot"
                           /\ UNCHANGED <<statusCode, message>>
          \/ /\ Throws("waitForSelector", PARAMETERS.selector)
             /\ clock' = locateStartTime
             /\ UNCHANGED bookingComponent
    /\ UNCHANGED <<impl, env, scratch, peer, dirIdx, checkIdx, probeIdx, startTime,
                   stageStart, browser, filename, fileContent, screenshotUrl,
                   totalExecutionTimeMs, response>>

\* --------------------------------------------------------- Artifact Capturer
\* new Date().toISOString(), as the pieces of "2025-07-24T10:30:45.00tZ".
Pad3(n) == IF n < 10 THEN "00" \o ToString(n)
           ELSE IF n < 100 THEN "0" \o ToString(n) ELSE ToString(n)

toISOString(t) == <<"2025-07-24T10", ":", "30", ":", "45", ".", Pad3(t), "Z">>

\* Mutant: the pattern lacks the g flag, so that only the first match is
\* replaced.
replaceFirst(str) ==
    [i \in DOMAIN str |->
        IF str[i] \in {":", "."} /\ \A j \in 1..(i - 1) : str[j] \notin {":", "."}
        THEN "-" ELSE str[i]]

\* .replace(/[:.]/g, "-")
replace(str) == [i \in DOMAIN str |-> IF str[i] \in {":", "."} THEN "-" ELSE str[i]]

RECURSIVE Join(_)
Join(str) == IF str = <<>> THEN "" ELSE Head(str) \o Join(Tail(str))

\* const filename = `aegean-flight-booking-${timestamp}.png`, as its pieces.
Filename(t) ==
    <<"aegean-flight-booking-">> \o replace(toISOString(t)) \o <<".", "png">>

\* const bucketName = process.env.AWS_S3_BUCKET || "technical-playwright-result"
bucketName == IF env.AWS_S3_BUCKET = NULL THEN DefaultBucket ELSE env.AWS_S3_BUCKET

\* Key: `screenshots/${filename}`
Key(name) == "screenshots/" \o Join(name)

\* `https://${bucketName}.s3.amazonaws.com/screenshots/${filename}`
Url(bucket, name) ==
    "https://" \o bucket \o ".s3.amazonaws.com/screenshots/" \o Join(name)

\* Step 3: await bookingComponent.screenshot({path}); then the filename.
Screenshot ==
    /\ impl = "part_001"
    /\ pc = "screenshot"
    /\ \E screenshotStartTime \in DateNow(clock) :
          /\ stageStart' = screenshotStartTime
          /\ \/ \E now \in DateNow(screenshotStartTime) :
                   /\ Returns("screenshot", screenshotPath)
                   /\ scratch' = Png("handler")
                   /\ clock' = now
                   /\ filename' = Filename(now)
                   /\ pc' = "readFile"
                   /\ UNCHANGED <<statusCode, message, testResults>>
             \/ /\ Throws("screenshot", screenshotPath)
                /\ clock' = screenshotStartTime
                /\ UNCHANGED <<filename, scratch>>
    /\ UNCHANGED <<impl, env, peer, dirIdx, checkIdx, probeIdx, startTime, browser,
                   bookingComponent, fileContent, screenshotUrl,
                   totalExecutionTimeMs, response>>

\* const fileContent = await fs.readFile(screenshotPath)
ReadFile ==
    /\ impl = "part_001"
    /\ pc = "readFile"
    /\ \/ /\ Returns("readFile", screenshotPath)
          /\ fileContent' = scratch
          /\ pc' = "send"
          /\ UNCHANGED <<statusCode, message, testResults>>
       \/ Throws("readFile", screenshotPath) /\ UNCHANGED fileContent
    /\ UNCHANGED <<impl, env, scratch, peer, dirIdx, checkIdx, probeIdx, clock, startTime,
                   stageStart, browser, bookingComponent, filename,
                   screenshotUrl, totalExecutionTimeMs, response>>

\* Mutant: screenshotUrl is assigned before the upload is awaited, so that a
\* failed upload leaves it set.
SendAssignsUrlFirst ==
    /\ impl = "part_001"
    /\ pc = "send"
    /\ screenshotUrl' = Url(bucketName, filename)
    /\ \/ \E screenshotEndTime \in DateNow(clock) :
          \E validateFormStartTime \in DateNow(screenshotEndTime) :
             /\ Returns("send", bucketName \o "/" \o Key(filename))
             /\ testResults' = Append(testResults,
                    CaptureResult(Url(bucketName, filename),
                                  screenshotEndTime - stageStart))
             /\ stageStart' = validateFormStartTime
             /\ clock' = validateFormStartTime
             /\ pc' = "validate"
             /\ UNCHANGED <<statusCode, message>>
       \/ /\ Throws("send", bucketName \o "/" \o Key(filename))
          /\ UNCHANGED <<stageStart, clock>>
    /\ UNCHANGED <<impl, env, scratch, peer, dirIdx, checkIdx, probeIdx, startTime, browser,
                   bookingComponent, filename, fileContent,
                   totalExecutionTimeMs, response>>

\* Mutant: the browser is closed as soon as the artifact is uploaded, before
\* the validation battery.
SendClosesBrowser ==
    /\ impl = "part_001"
    /\ pc = "send"
    /\ \/ \E screenshotEndTime \in DateNow(clock) :
          \E validateFormStartTime \in DateNow(screenshotEndTime) :
             /\ calls' = Append(Append(calls,
                    Call("send", bucketName \o "/" \o Key(filename), "ok")),
                    Call("close", "browser", "ok"))
             /\ screenshotUrl' = Url(bucketName, filename)
             /\ testResults' = Append(testResults,
                    CaptureResult(Url(bucketName, filename),
                                  screenshotEndTime - stageStart))
             /\ stageStart' = validateFormStartTime
             /\ clock' = validateFormStartTime
             /\ pc' = "validate"
             /\ UNCHANGED <<statusCode, message>>
       \/ /\ Throws("send", bucketName \o "/" \o Key(filename))
          /\ UNCHANGED <<stageStart, clock, screenshotUrl>>
    /\ UNCHANGED <<impl, env, scratch, peer, dirIdx, checkIdx, probeIdx, startTime, browser,
                   bookingComponent, filename, fileContent,
                   totalExecutionTimeMs, response>>

\* await s3Client.send(new PutObjectCommand(params)); screenshotUrl is set and
\* the capture entry pushed; validateFormStartTime is read.
Send ==
    /\ impl = "part_001"
    /\ pc = "send"
    /\ \/ \E screenshotEndTime \in DateNow(clock) :
          \E validateFormStartTime \in DateNow(screenshotEndTime) :
             /\ Returns("send", bucketName \o "/" \o Key(filename))
             /\ screenshotUrl' = Url(bucketName, filename)
             /\ testResults' = Append(testResults,
                    CaptureResult(Url(bucketName, filename),
                                  screenshotEndTime - stageStart))
             /\ stageStart' = validateFormStartTime
             /\ clock' = validateFormStartTime
             /\ pc' = "validate"
             /\ UNCHANGED <<statusCode, message>>
       \/ /\ Throws("send", bucketName \o "/" \o Key(filename))
          /\ UNCHANGED <<screenshotUrl, stageStart, clock>>
    /\ UNCHANGED <<impl, env, scratch, peer, dirIdx, checkIdx, probeIdx, startTime, browser,
                   bookingComponent, filename, fileContent,
                   totalExecutionTimeMs, response>>

\* -------------------------------------------------------- Validation Battery
Expect(op, locator) == [op |-> op, locator |-> locator]

\* The try blocks 4.1 to 4.5: the entry each pushes and the expect() calls it
\* awaits, in order.
Checks == <<
    [name    |-> "Validate trip type selector",
     details |-> "Trip type selector is visible.",
     probes  |-> <<Expect("toBeVisible", "div.trip-type-selector")>>],
    [name    |-> "Validate passengers and class selector",
     details |-> "Passengers and class selector is visible.",
     probes  |-> <<Expect("toBeVisible", "[data-em-cmp=\"passengers\"]")>>],
    [name    |-> "Validate origin and destination fields",
     details |-> "Origin and destination fields are visible.",
     probes  |-> <<Expect("toBeVisible", "input[data-em-cmp=\"origin\"]"),
                   Expect("toBeVisible", "input[data-em-cmp=\"destination\"]")>>],
    [name    |-> "Validate date selectors",
     details |-> "Departure and return date selectors are visible.",
     probes  |-> <<Expect("toBeVisible", "[data-em-cmp=\"departure-date\"]"),
                   Expect("toBeVisible", "[data-em-cmp=\"return-date\"]")>>],
    [name    |-> "Validate search button",
     details |-> "Search button is visible and enabled.",
     probes  |-> <<Expect("toBeVisible", "button[data-em-cmp=\"search\"]"),
                   Expect("toBeEnabled", "button[data-em-cmp=\"search\"]")>>] >>

\* The entry a try block pushes when all its expect() calls passed.
CheckSuccess(check) ==
    [name |-> check.name, status |-> "SUCCESS", details |-> check.details]

\* The entry its catch pushes.
CheckFailure(check, errMsg) ==
    [name |-> check.name, status |-> "FAILURE", details |-> "Error: " \o errMsg]

\* Mutant: the summary entry derives its status from the checks before it.
SummaryResultDerived(ms) ==
    [name |-> "Booking form validation",
     status |-> IF \E i \in DOMAIN testResults : testResults[i].status = "FAILURE"
                THEN "FAILURE" ELSE "SUCCESS",
     details |-> "All booking form validations have been completed.",
     executionTimeMs |-> ms]

SummaryResult(ms) ==
    [name |-> "Booking form validation", status |-> "SUCCESS",
     details |-> "All booking form validations have been completed.",
     executionTimeMs |-> ms]

\* Mutant: the battery ends without its summary entry.
EndCheckNoSummary(pushed) ==
    IF checkIdx < Len(Checks)
    THEN /\ checkIdx' = checkIdx + 1
         /\ probeIdx' = 1
         /\ testResults' = pushed
         /\ UNCHANGED <<pc, clock, totalExecutionTimeMs>>
    ELSE \E now \in DateNow(clock) :
            /\ testResults' = pushed
            /\ totalExecutionTimeMs' = now - startTime
            /\ clock' = now
            /\ pc' = "finally"
            /\ UNCHANGED <<checkIdx, probeIdx>>

\* A try block has pushed its entry: the next block starts, or the battery
\* ends with the summary entry and the total time.
\* Mutant: the total is measured from the start of the battery instead of the
\* start of the run.
EndCheckBatteryTotal(pushed) ==
    IF checkIdx < Len(Checks)
    THEN /\ checkIdx' = checkIdx + 1
         /\ probeIdx' = 1
         /\ testResults' = pushed
         /\ UNCHANGED <<pc, clock, totalExecutionTimeMs>>
    ELSE \E validateFormEndTime \in DateNow(clock) :
         \E now \in DateNow(validateFormEndTime) :
            /\ testResults' = Append(pushed,
                   SummaryResult(validateFormEndTime - stageStart))
            /\ totalExecutionTimeMs' = now - stageStart
            /\ clock' = now
            /\ pc' = "finally"
            /\ UNCHANGED <<checkIdx, probeIdx>>

EndCheck(pushed) ==
    IF checkIdx < Len(Checks)
    THEN /\ checkIdx' = checkIdx + 1
         /\ probeIdx' = 1
         /\ testResults' = pushed
         /\ UNCHANGED <<pc, clock, totalExecutionTimeMs>>
    ELSE \E validateFormEndTime \in DateNow(clock) :
         \E now \in DateNow(validateFormEndTime) :
            /\ testResults' = Append(pushed,
                   SummaryResult(validateFormEndTime - stageStart))
            /\ totalExecutionTimeMs' = now - startTime
            /\ clock' = now
            /\ pc' = "finally"
            /\ UNCHANGED <<checkIdx, probeIdx>>

\* The awaited expect() passed: the next expect() of the try block, or its
\* SUCCESS entry.
ProbePasses(check, probe) ==
    /\ Returns(probe.op, probe.locator)
    /\ IF probeIdx < Len(check.probes)
       THEN /\ probeIdx' = probeIdx + 1
            /\ UNCHANGED <<pc, checkIdx, clock, testResults, totalExecutionTimeMs>>
       ELSE EndCheck(Append(testResults, CheckSuccess(check)))
    /\ UNCHANGED <<statusCode, message>>

\* Mutant: the expect() calls are not wrapped in their own try/catch, so that
\* a failing one reaches the catch block of the handler.
ProbeFailsAborts(check, probe) ==
    /\ calls' = Append(calls, Call(probe.op, probe.locator, "throw"))
    /\ HandlerCatch(testResults, ErrorMessage(probe.op, probe.locator))
    /\ UNCHANGED <<checkIdx, probeIdx, clock, totalExecutionTimeMs>>

\* Mutant: a failing check also sets the top-level status.
ProbeFailsSetsStatus(check, probe) ==
    /\ calls' = Append(calls, Call(probe.op, probe.locator, "throw"))
    /\ EndCheck(Append(testResults,
           CheckFailure(check, ErrorMessage(probe.op, probe.locator))))
    /\ statusCode' = CatchStatusCode
    /\ message' = CatchMessage(ErrorMessage(probe.op, probe.locator))

\* Mutant: every expect() has a try/catch of its own, so that a failing one
\* does not skip the expect() calls after it.
ProbeFailsIndependent(check, probe) ==
    /\ calls' = Append(calls, Call(probe.op, probe.locator, "throw"))
    /\ IF probeIdx < Len(check.probes)
       THEN /\ probeIdx' = probeIdx + 1
            /\ testResults' = Append(testResults,
                   CheckFailure(check, ErrorMessage(probe.op, probe.locator)))
            /\ UNCHANGED <<pc, checkIdx, clock, totalExecutionTimeMs>>
       ELSE EndCheck(Append(testResults,
                CheckFailure(check, ErrorMessage(probe.op, probe.locator))))
    /\ UNCHANGED <<statusCode, message>>

\* The awaited expect() threw: the catch of its own try block pushes FAILURE
\* and the handler goes on with the next block.
ProbeFails(check, probe) ==
    /\ calls' = Append(calls, Call(probe.op, probe.locator, "throw"))
    /\ EndCheck(Append(testResults,
           CheckFailure(check, ErrorMessage(probe.op, probe.locator))))
    /\ UNCHANGED <<statusCode, message>>

\* One await expect(locator).toBeVisible()/toBeEnabled() of the battery.
Probe ==
    /\ impl = "part_001"
    /\ pc = "validate"
    /\ \/ ProbePasses(Checks[checkIdx], Checks[checkIdx].probes[probeIdx])
       \/ ProbeFails(Checks[checkIdx], Checks[checkIdx].probes[probeIdx])
    /\ UNCHANGED <<impl, env, scratch, peer, dirIdx, startTime, stageStart, browser,
                   bookingComponent, filename, fileContent, screenshotUrl,
                   response>>

\* ------------------------------------------------- the handler of index.ts
\* await page.goto(PARAMETERS.url, {...})
IndexGoto ==
    /\ impl = "index"
    /\ pc = "goto"
    /\ \/ Returns("goto", PARAMETERS.url) /\ pc' = "waitForSelector"
          /\ UNCHANGED <<statusCode, message, testResults>>
       \/ Throws("goto", PARAMETERS.url)
    /\ UNCHANGED <<impl, env, scratch, peer, dirIdx, checkIdx, probeIdx, clock, startTime,
                   stageStart, browser, bookingComponent, filename,
                   fileContent, screenshotUrl, totalExecutionTimeMs, response>>

\* await page.waitForSelector(PARAMETERS.selector, {...}); the handle is dropped.
IndexWaitForSelector ==
    /\ impl = "index"
    /\ pc = "waitForSelector"
    /\ \/ Returns("waitForSelector", PARAMETERS.selector) /\ pc' = "query"
          /\ UNCHANGED <<statusCode, message, testResults>>
       \/ Throws("waitForSelector", PARAMETERS.selector)
    /\ UNCHANGED <<impl, env, scratch, peer, dirIdx, checkIdx, probeIdx, clock, startTime,
                   stageStart, browser, bookingComponent, filename,
                   fileContent, screenshotUrl, totalExecutionTimeMs, response>>

IndexNotFoundMessage == "Flight booking component not found"

\* const element = await page.$(PARAMETERS.selector); if (!element) throw.
IndexQuery ==
    /\ impl = "index"
    /\ pc = "query"
    /\ \/ /\ Returns("$", PARAMETERS.selector)
          /\ bookingComponent' = "element"
          /\ pc' = "screenshot"
          /\ UNCHANGED <<statusCode, message, testResults>>
       \/ /\ calls' = Append(calls, Call("$", PARAMETERS.selector, "null"))
          /\ Catch(testResults, IndexNotFoundMessage)
          /\ UNCHANGED bookingComponent
       \/ Throws("$", PARAMETERS.selector) /\ UNCHANGED bookingComponent
    /\ UNCHANGED <<impl, env, scratch, peer, dirIdx, checkIdx, probeIdx, clock, startTime,
                   stageStart, browser, filename, fileContent, screenshotUrl,
                   totalExecutionTimeMs, response>>

\* Mutant: the configured prefix is used (the expression yields its left
\* operand).
CommaLeft(left, right) == left

\* (process.env.PREFIX, ""): the comma operator yields its right operand.
Comma(left, right) == right

\* const filename = `${(process.env.PREFIX, "")}-aegean-flight-booking-${timestamp}.png`
IndexFilename(t) ==
    <<Comma(env.PREFIX, ""), "-aegean-flight-booking-">>
        \o replace(toISOString(t)) \o <<".", "png">>

\* await element.screenshot({path}); then the filename.
IndexScreenshot ==
    /\ impl = "index"
    /\ pc = "screenshot"
    /\ \/ \E now \in DateNow(clock) :
             /\ Returns("screenshot", screenshotPath)
             /\ scratch' = Png("handler")
             /\ clock' = now
             /\ filename' = IndexFilename(now)
             /\ pc' = "access"
             /\ UNCHANGED <<statusCode, message, testResults>>
       \/ Throws("screenshot", screenshotPath)
          /\ UNCHANGED <<clock, filename, scratch>>
    /\ UNCHANGED <<impl, env, peer, dirIdx, checkIdx, probeIdx, startTime,
                   stageStart, browser, bookingComponent, fileContent,
                   screenshotUrl, totalExecutionTimeMs, response>>

AccessMessage == "Screenshot file not found at " \o screenshotPath

\* try { await fs.access(screenshotPath) } catch { throw new Error(...) }
IndexAccess ==
    /\ impl = "index"
    /\ pc = "access"
    /\ \/ Returns("access", screenshotPath) /\ pc' = "readFile"
          /\ UNCHANGED <<statusCode, message, testResults>>
       \/ /\ calls' = Append(calls, Call("access", screenshotPath, "throw"))
          /\ Catch(testResults, AccessMessage)
    /\ UNCHANGED <<impl, env, scratch, peer, dirIdx, checkIdx, probeIdx, clock, startTime,
                   stageStart, browser, bookingComponent, filename,
                   fileContent, screenshotUrl, totalExecutionTimeMs, response>>

\* const fileContent = await fs.readFile(screenshotPath)
IndexReadFile ==
    /\ impl = "index"
    /\ pc = "readFile"
    /\ \/ /\ Returns("readFile", screenshotPath)
          /\ fileContent' = scratch
          /\ pc' = "send"
          /\ UNCHANGED <<statusCode, message, testResults>>
       \/ Throws("readFile", screenshotPath) /\ UNCHANGED fileContent
    /\ UNCHANGED <<impl, env, scratch, peer, dirIdx, checkIdx, probeIdx, clock, startTime,
                   stageStart, browser, bookingComponent, filename,
                   screenshotUrl, totalExecutionTimeMs, response>>

\* await s3Client.send(uploadCommand); screenshotUrl is set.
IndexSend ==
    /\ impl = "index"
    /\ pc = "send"
    /\ \/ /\ Returns("send", bucketName \o "/" \o Key(filename))
          /\ screenshotUrl' = Url(bucketName, filename)
          /\ pc' = "finally"
          /\ UNCHANGED <<statusCode, message, testResults>>
       \/ Throws("send", bucketName \o "/" \o Key(filename))
          /\ UNCHANGED screenshotUrl
    /\ UNCHANGED <<impl, env, scratch, peer, dirIdx, checkIdx, probeIdx, clock, startTime,
                   stageStart, browser, bookingComponent, filename,
                   fileContent, totalExecutionTimeMs, response>>

\* ---------------------------------------------------- release and response
\* Mutant: the browser is closed on the success path only.
ShouldCloseOnSuccess(b) == b # NULL /\ statusCode = 200

\* Mutant: the finally block closes the browser without testing the handle.
ShouldCloseAlways(b) == TRUE

\* finally { if (browser) ... }
ShouldClose(b) == b # NULL

\* Mutant: browser.close() is awaited without its own try/catch, so that its
\* error leaves the handler.
AfterCloseUncaught(result) == IF result = "throw" THEN "thrown" ELSE "respond"

\* try { await browser.close() } catch (closeError) { console.error(...) }:
\* where the handler goes on after the call.
AfterClose(result) == "respond"

\* Mutant: a failure of browser.close() is reported as the run's error.
FinallyCloseErrorOverrides ==
    /\ pc = "finally"
    /\ IF ShouldClose(browser)
       THEN \/ /\ calls' = Append(calls, Call("close", "browser", "ok"))
               /\ UNCHANGED <<statusCode, message>>
            \/ /\ calls' = Append(calls, Call("close", "browser", "throw"))
               /\ statusCode' = CatchStatusCode
               /\ message' = CatchMessage(ErrorMessage("close", "browser"))
       ELSE UNCHANGED <<calls, statusCode, message>>
    /\ pc' = "respond"
    /\ UNCHANGED <<impl, env, scratch, peer, dirIdx, checkIdx, probeIdx, clock, startTime,
                   stageStart, browser, bookingComponent, filename,
                   fileContent, screenshotUrl, testResults,
                   totalExecutionTimeMs, response>>

\* The inbound invocation payload.
event == [httpMethod |-> "GET", path |-> "/screenshot"]

ResponseHeaders == "Content-Type" :> "application/json"

\* index.ts: body: JSON.stringify({message, timestamp, screenshotUrl, event}),
\* kept as the object it serialises.
IndexResponseBody(now) ==
    [message |-> message, timestamp |-> Join(toISOString(now)),
     screenshotUrl |-> screenshotUrl, event |-> event]

\* part_001: the body also carries the total time and the test results.
HandlerResponseBody(now) ==
    [message |-> message, timestamp |-> Join(toISOString(now)),
     screenshotUrl |-> screenshotUrl, event |-> event,
     totalExecutionTimeMs |-> totalExecutionTimeMs,
     testResults |-> testResults]

ResponseBody(now) ==
    IF impl = "index" THEN IndexResponseBody(now) ELSE HandlerResponseBody(now)

\* Mutant: the response is built in the finally block, before the browser is
\* closed.
FinallyRespondsFirst ==
    /\ pc = "finally"
    /\ response' = Append(response,
                          [statusCode |-> statusCode,
                           headers |-> ResponseHeaders,
                           body |-> ResponseBody(clock)])
    /\ IF ShouldClose(browser)
       THEN \E result \in {"ok", "throw"} :
               calls' = Append(calls, Call("close", "browser", result))
       ELSE UNCHANGED calls
    /\ pc' = "done"
    /\ UNCHANGED <<impl, env, scratch, peer, dirIdx, checkIdx, probeIdx, clock, startTime,
                   stageStart, browser, bookingComponent, filename,
                   fileContent, screenshotUrl, statusCode, message,
                   testResults, totalExecutionTimeMs>>

\* finally: await browser.close() inside its own try/catch.
Finally ==
    /\ pc = "finally"
    /\ IF ShouldClose(browser)
       THEN \E result \in {"ok", "throw"} :
               /\ calls' = Append(calls, Call("close", "browser", result))
               /\ pc' = AfterClose(result)
       ELSE /\ pc' = "respond"
            /\ UNCHANGED calls
    /\ UNCHANGED <<impl, env, scratch, peer, dirIdx, checkIdx, probeIdx, clock, startTime,
                   stageStart, browser, bookingComponent, filename,
                   fileContent, screenshotUrl, statusCode, message,
                   testResults, totalExecutionTimeMs, response>>

\* const response = {...}; return response
Respond ==
    /\ pc = "respond"
    /\ \E now \in DateNow(clock) :
          /\ response' = Append(response,
                              [statusCode |-> statusCode,
                               headers |-> ResponseHeaders,
                               body |-> ResponseBody(now)])
          /\ clock' = now
    /\ pc' = "done"
    /\ UNCHANGED <<impl, env, scratch, peer, dirIdx, checkIdx, probeIdx, startTime,
                   stageStart, browser, bookingComponent, filename,
                   fileContent, screenshotUrl, statusCode, message,
                   testResults, totalExecutionTimeMs, calls>>

Next ==
    \/ Start
    \/ Mkdir
    \/ Chmod
    \/ DirNote
    \/ ExecutablePath
    \/ Launch
    \/ NewContext
    \/ NewPage
    \/ Goto
    \/ WaitForSelector
    \/ Screenshot
    \/ ReadFile
    \/ Send
    \/ Probe
    \/ IndexGoto
    \/ IndexWaitForSelector
    \/ IndexQuery
    \/ IndexScreenshot
    \/ IndexAccess
    \/ IndexReadFile
    \/ IndexSend
    \/ Finally
    \/ Respond

Spec == Init /\ [][Next]_vars

\* ------------------------------------------- two interleaved invocations
\* A second invocation of the handler reaches its capture while the first
\* one is between its own capture and its upload; the steps before its
\* capture do not touch the file at screenshotPath.
PeerInvoke ==
    /\ peer.pc = "idle"
    /\ pc \in {"screenshot", "access", "readFile", "send"}
    /\ peer' = [peer EXCEPT !.pc = "screenshot"]
    /\ UNCHANGED <<impl, env, pc, dirIdx, checkIdx, probeIdx, clock,
                   startTime, stageStart, browser, bookingComponent,
                   filename, fileContent, screenshotUrl, statusCode, message,
                   testResults, totalExecutionTimeMs, calls, response,
                   scratch>>

\* Its await bookingComponent.screenshot({path: screenshotPath}).
PeerScreenshot ==
    /\ peer.pc = "screenshot"
    /\ scratch' = Png("peer")
    /\ peer' = [peer EXCEPT !.pc = "readFile"]
    /\ UNCHANGED <<impl, env, pc, dirIdx, checkIdx, probeIdx, clock,
                   startTime, stageStart, browser, bookingComponent,
                   filename, fileContent, screenshotUrl, statusCode, message,
                   testResults, totalExecutionTimeMs, calls, response>>

\* Its const fileContent = await fs.readFile(screenshotPath).
PeerReadFile ==
    /\ peer.pc = "readFile"
    /\ peer' = [peer EXCEPT !.pc = "send", !.fileContent = scratch]
    /\ UNCHANGED <<impl, env, pc, dirIdx, checkIdx, probeIdx, clock,
                   startTime, stageStart, browser, bookingComponent,
                   filename, fileContent, screenshotUrl, statusCode, message,
                   testResults, totalExecutionTimeMs, calls, response,
                   scratch>>

\* Its await s3Client.send(...) with Body: fileContent.
PeerSend ==
    /\ peer.pc = "send"
    /\ peer' = [peer EXCEPT !.pc = "done", !.uploaded = peer.fileContent]
    /\ UNCHANGED <<impl, env, pc, dirIdx, checkIdx, probeIdx, clock,
                   startTime, stageStart, browser, bookingComponent,
                   filename, fileContent, screenshotUrl, statusCode, message,
                   testResults, totalExecutionTimeMs, calls, response,
                   scratch>>

PairNext ==
    \/ Next
    \/ PeerInvoke
    \/ PeerScreenshot
    \/ PeerReadFile
    \/ PeerSend

\* Two invocations in one process, interleaved at their awaits.
PairSpec == Init /\ [][PairNext]_vars

\* The event loop resumes the handler whenever the call it awaits settles, and
\* every collaborator call settles (by its own timeout at the latest).
FairSpec == Spec /\ WF_vars(Next)

\* =================================================================== claims
\* The calls made so far that satisfy P.
CallsWhere(P(_)) == {i \in DOMAIN calls : P(calls[i])}

IsClose(c) == c.op = "close"

LaunchReturned(c) == c.op = "launch" /\ c.result = "ok"

Failed(c) == c.result \in {"throw", "null"}

Returned == pc = "done" /\ Len(response) = 1

\* The report of a returned part_001 invocation.
Report == response[1].body.testResults

Names(results) == [i \in DOMAIN results |-> results[i].name]

Statuses(results) == [i \in DOMAIN results |-> results[i].status]

EntriesNamed(results, n) == {i \in DOMAIN results : results[i].name = n}

FatalName == "Fatal error during execution"

SummaryName == "Booking form validation"

CheckNames == {Checks[k].name : k \in DOMAIN Checks}

\* ------------------------------------------------------------------- C1
\* C1 as stated: when the handler has returned, browser.close was invoked
\* exactly once, whatever failed (a failed launch included).
C1_ReleasedExactlyOnceAlways ==
    pc = "done" => Cardinality(CallsWhere(IsClose)) = 1

\* C1 (amended): browser.close is never invoked twice, and when the handler
\* has returned it was invoked exactly once if playwright.launch returned a
\* browser, whatever failed afterwards, and not at all if no browser was
\* launched.
C1_ReleasedOncePerLaunchedBrowser ==
    /\ Cardinality(CallsWhere(IsClose)) <= 1
    /\ pc = "done" =>
          Cardinality(CallsWhere(IsClose)) =
              IF CallsWhere(LaunchReturned) # {} THEN 1 ELSE 0

\* A returned invocation that failed after the launch and closed the browser.
C1_Witness ==
    /\ pc = "done"
    /\ statusCode = 500
    /\ CallsWhere(LaunchReturned) # {}
    /\ Cardinality(CallsWhere(IsClose)) = 1

\* ------------------------------------------------------------------- C2
WellFormedResponse(r) ==
    /\ r.statusCode \in {200, 500}
    /\ "Content-Type" \in DOMAIN r.headers
    /\ r.headers["Content-Type"] = "application/json"
    /\ "message" \in DOMAIN r.body

\* C2: whatever the outcomes of launch, context and page creation, navigation,
\* location, capture, upload, each validation check and browser.close, the
\* handler ends by returning one response with statusCode 200 or 500 and a
\* Content-Type application/json header; it ends nowhere else.
C2_AlwaysReturnsResponse ==
    /\ <>(pc = "done")
    /\ [](pc = "done" <=> Len(response) = 1)
    /\ [](pc = "done" => WellFormedResponse(response[1]))
    /\ [](pc # "done" => response = <<>>)

\* A response returned although browser.close threw after a failed stage.
C2_Witness ==
    /\ Returned
    /\ WellFormedResponse(response[1])
    /\ response[1].statusCode = 500
    /\ \E i \in CallsWhere(IsClose) : calls[i].result = "throw"
\* ------------------------------------------------------------------- C3
\* The calls of the pipeline stages: session acquisition, navigation,
\* location, capture and upload.
StageOps == {"executablePath", "launch", "newContext", "newPage", "goto",
             "waitForSelector", "screenshot", "readFile", "send"}

StageFailures == CallsWhere(LAMBDA c : c.op \in StageOps /\ Failed(c))

\* The message of the error a failed stage call raised in the handler.
RaisedMessage(c) ==
    IF c.result = "null" THEN "Flight booking component not found."
    ELSE c.op \o " failed: " \o c.target

Last(results) == results[Len(results)]

\* C3: the returned statusCode is 500 exactly when a pipeline stage failed;
\* otherwise it is 200 with message "Success".  When it is 500 the message
\* is "Fatal error: " followed by the failing error's message, and the last
\* StepResult is a FAILURE entry whose details are that error's message.
C3_StatusReflectsStageFailure ==
    (impl = "part_001" /\ Returned) =>
        LET r == response[1] IN
        /\ r.statusCode = 500 <=> StageFailures # {}
        /\ StageFailures = {} =>
              r.statusCode = 200 /\ r.body.message = "Success"
        /\ r.statusCode = 500 =>
              \E i \in StageFailures :
                 /\ r.body.message = "Fatal error: " \o RaisedMessage(calls[i])
                 /\ Last(Report).name = FatalName
                 /\ Last(Report).status = "FAILURE"
                 /\ Last(Report).details = RaisedMessage(calls[i])

\* A returned 500 report whose upload failed.
C3_Witness ==
    /\ impl = "part_001"
    /\ Returned
    /\ response[1].statusCode = 500
    /\ \E i \in StageFailures : calls[i].op = "send"

\* ------------------------------------------------------------------- C4
NavigationOrLocationFailed ==
    CallsWhere(LAMBDA c : c.op \in {"goto", "waitForSelector"} /\ Failed(c)) # {}

\* C4: if page.goto or waitForSelector fails, the returned sequence has
\* exactly one fatal-failure entry (and no other FAILURE entry), no
\* validation-check entry and no battery summary; screenshotUrl is null and
\* statusCode is 500.
C4_NavigationFailureReport ==
    (impl = "part_001" /\ Returned /\ NavigationOrLocationFailed) =>
        /\ Cardinality(EntriesNamed(Report, FatalName)) = 1
        /\ \A i \in DOMAIN Report :
              Report[i].status = "FAILURE" <=> Report[i].name = FatalName
        /\ \A i \in DOMAIN Report :
              Report[i].name \notin CheckNames \cup {SummaryName}
        /\ response[1].body.screenshotUrl = NULL
        /\ response[1].statusCode = 500

\* A returned report of a run whose waitForSelector threw.
C4_Witness ==
    /\ impl = "part_001"
    /\ Returned
    /\ \E i \in DOMAIN calls :
          calls[i].op = "waitForSelector" /\ calls[i].result = "throw"

\* ------------------------------------------------------------------- C5
\* The battery is entered when the upload has succeeded.
BatteryEntered == CallsWhere(LAMBDA c : c.op = "send" /\ c.result = "ok") # {}

\* The expect() calls made for the k-th check (try block).
ProbeCalls(k) ==
    CallsWhere(LAMBDA c : \E j \in DOMAIN Checks[k].probes :
                  /\ c.op = Checks[k].probes[j].op
                  /\ c.target = Checks[k].probes[j].locator)

FailedProbeCalls(k) == {i \in ProbeCalls(k) : calls[i].result = "throw"}

\* C5: once the battery is entered, every check (each of the five try blocks)
\* is attempted and contributes exactly one StepResult, whatever the outcome
\* of the other checks: FAILURE with "Error: " and the underlying error's
\* message if one of its expect() calls threw, SUCCESS otherwise.
C5_ChecksIsolated ==
    (impl = "part_001" /\ Returned /\ BatteryEntered) =>
        \A k \in DOMAIN Checks :
           /\ ProbeCalls(k) # {}
           /\ Cardinality(EntriesNamed(Report, Checks[k].name)) = 1
           /\ \A i \in EntriesNamed(Report, Checks[k].name) :
                 IF FailedProbeCalls(k) = {}
                 THEN /\ Report[i].status = "SUCCESS"
                      /\ Report[i].details = Checks[k].details
                 ELSE /\ Report[i].status = "FAILURE"
                      /\ \E c \in FailedProbeCalls(k) :
                            Report[i].details = "Error: " \o RaisedMessage(calls[c])

\* The first check failed and the last one still ran and passed.
C5_Witness ==
    /\ impl = "part_001"
    /\ Returned
    /\ FailedProbeCalls(1) # {}
    /\ FailedProbeCalls(3) # {}
    /\ FailedProbeCalls(5) = {}
    /\ \E i \in EntriesNamed(Report, Checks[5].name) : Report[i].status = "SUCCESS"

\* ------------------------------------------------------------------- C6
CaptureOrUploadFailed ==
    CallsWhere(LAMBDA c : c.op \in {"screenshot", "readFile", "send"}
                          /\ c.result = "throw") # {}

AnyProbeCalls == UNION {ProbeCalls(k) : k \in DOMAIN Checks}

\* C6 as stated: when the element screenshot or the S3 put fails after
\* navigation and location succeeded, statusCode is 500 and screenshotUrl
\* null, and the validation battery still ran: the report contains the
\* validation-check entries.
C6_BatteryRunsAfterCaptureFailure ==
    (impl = "part_001" /\ Returned /\ CaptureOrUploadFailed) =>
        /\ response[1].statusCode = 500
        /\ response[1].body.screenshotUrl = NULL
        /\ \A k \in DOMAIN Checks :
              ProbeCalls(k) # {} /\ EntriesNamed(Report, Checks[k].name) # {}

\* C6 (amended): when the element screenshot, the read of the captured file
\* or the S3 put fails after navigation and location succeeded, statusCode
\* is 500, screenshotUrl is null and the rest of the pipeline is aborted: no
\* validation check is attempted and the report is the navigation entry, the
\* location entry and the fatal-error entry, with no validation-check entry
\* and no battery summary.
C6_CaptureFailureAbortsBattery ==
    (impl = "part_001" /\ Returned /\ CaptureOrUploadFailed) =>
        /\ response[1].statusCode = 500
        /\ response[1].body.screenshotUrl = NULL
        /\ AnyProbeCalls = {}
        /\ Names(Report) = <<"Navigate to Aegean Air website",
                             "Locate the booking component", FatalName>>

\* A returned report of a run whose upload to S3 threw.
C6_Witness ==
    /\ impl = "part_001"
    /\ Returned
    /\ \E i \in DOMAIN calls : calls[i].op = "send" /\ calls[i].result = "throw"

\* ------------------------------------------------------------------- C7
\* C7: when navigation, location, capture and upload succeeded, then for every
\* set of failing validation checks statusCode is 200, the message "Success",
\* screenshotUrl non-null, there is no fatal-error entry, and the FAILURE
\* entries are exactly the entries of the checks with a failing expect().
C7_CheckFailuresNotFatal ==
    (impl = "part_001" /\ Returned /\ BatteryEntered) =>
        /\ response[1].statusCode = 200
        /\ response[1].body.message = "Success"
        /\ response[1].body.screenshotUrl # NULL
        /\ EntriesNamed(Report, FatalName) = {}
        /\ \A i \in DOMAIN Report :
              Report[i].status = "FAILURE" <=>
                 \E k \in DOMAIN Checks :
                    Report[i].name = Checks[k].name /\ FailedProbeCalls(k) # {}

\* Every check failed, the search button being visible but not enabled.
C7_Witness ==
    /\ impl = "part_001"
    /\ Returned
    /\ \A k \in DOMAIN Checks : FailedProbeCalls(k) # {}
    /\ \E i \in DOMAIN calls : calls[i].op = "toBeEnabled" /\ calls[i].result = "throw"
    /\ response[1].statusCode = 200

\* ------------------------------------------------------------------- C8
\* C8: after all validation checks have run, exactly one summary entry has
\* been appended; it follows the five check entries as the last entry of the
\* battery and its status is SUCCESS whatever the checks' outcomes.
C8_OneSuccessSummary ==
    (impl = "part_001" /\ Returned /\ BatteryEntered) =>
        /\ Cardinality(EntriesNamed(Report, SummaryName)) = 1
        /\ Last(Report).name = SummaryName
        /\ Last(Report).status = "SUCCESS"
        /\ \A k \in DOMAIN Checks :
              \A i \in EntriesNamed(Report, Checks[k].name) : i < Len(Report)

\* The summary of a battery in which a check failed.
C8_Witness ==
    /\ impl = "part_001"
    /\ Returned
    /\ FailedProbeCalls(2) # {}
    /\ Last(Report).name = SummaryName

\* ------------------------------------------------------------------- C9
\* Every call but browser.close succeeded.
HappyPath == \A i \in DOMAIN calls : calls[i].op # "close" => calls[i].result = "ok"

\* C9: on the happy path the report has at least 9 StepResults, all of them
\* SUCCESS, statusCode 200 and a non-null screenshotUrl.
C9_HappyPathReport ==
    (impl = "part_001" /\ Returned /\ HappyPath) =>
        /\ Len(Report) >= 9
        /\ \A i \in DOMAIN Report : Report[i].status = "SUCCESS"
        /\ response[1].statusCode = 200
        /\ response[1].body.screenshotUrl # NULL

C9_Witness ==
    /\ impl = "part_001"
    /\ Returned
    /\ HappyPath
    /\ Len(Report) = 9

\* ------------------------------------------------------------------ C10
\* The declared pipeline order of the entries.
PipelineOrder ==
    <<"Navigate to Aegean Air website", "Locate the booking component",
      "Capture a screenshot of the component">>
    \o [k \in DOMAIN Checks |-> Checks[k].name] \o <<SummaryName>>

IsPrefix(p, q) == Len(p) <= Len(q) /\ p = SubSeq(q, 1, Len(p))

\* The entries before a trailing fatal-error entry, if there is one.
WithoutFatal(results) ==
    IF results # <<>> /\ Last(results).name = FatalName
    THEN SubSeq(results, 1, Len(results) - 1) ELSE results

InPipelineOrder(results) == IsPrefix(Names(WithoutFatal(results)), PipelineOrder)

\* C10: the returned StepResult sequence is non-empty; at every moment the
\* entries recorded so far follow the declared pipeline order (navigate,
\* locate, capture, the checks in their order, the summary) with a fatal-error
\* entry, if any, last; entries are only ever appended, never removed,
\* reordered or changed; and the report returns the entries as recorded.
C10_OrderedAppendOnly ==
    /\ []((impl = "part_001" /\ Returned) => Report # <<>> /\ Report = testResults)
    /\ [](impl = "part_001" => InPipelineOrder(testResults))
    /\ [][IsPrefix(testResults, testResults')]_vars

\* A fatal-error entry recorded after two stage entries.
C10_Witness ==
    /\ impl = "part_001"
    /\ Returned
    /\ Len(Report) = 3
    /\ Last(Report).name = FatalName

\* ------------------------------------------------------------------ C11
CloseThrew == CallsWhere(LAMBDA c : c.op = "close" /\ c.result = "throw") # {}

\* The step in which browser.close() is called and throws.
CloseThrows ==
    /\ Len(calls') = Len(calls) + 1
    /\ calls'[Len(calls')].op = "close"
    /\ calls'[Len(calls')].result = "throw"

\* C11: a failure of browser.close() is caught at the release boundary: the
\* step leaves statusCode, message, screenshotUrl and the StepResults as they
\* were, the handler still returns, and the response carries those values.
C11_CloseFailureSwallowed ==
    /\ [][CloseThrows =>
            /\ pc' = "respond"
            /\ statusCode' = statusCode
            /\ message' = message
            /\ screenshotUrl' = screenshotUrl
            /\ testResults' = testResults]_vars
    /\ [][CloseThrew => /\ statusCode' = statusCode
                        /\ message' = message
                        /\ screenshotUrl' = screenshotUrl
                        /\ testResults' = testResults]_vars
    /\ CloseThrew ~> Returned
    /\ [](Returned =>
            /\ response[1].statusCode = statusCode
            /\ response[1].body.message = message
            /\ response[1].body.screenshotUrl = screenshotUrl
            /\ impl = "part_001" => Report = testResults)

\* A successful run returned 200 although browser.close() threw.
C11_Witness ==
    /\ Returned
    /\ CloseThrew
    /\ response[1].statusCode = 200
    /\ response[1].body.message = "Success"
    /\ response[1].body.screenshotUrl # NULL

\* ------------------------------------------------------------------ C12
\* The positions of the handler inside ensureDirectoriesExist.
InEnvironmentPreparation == pc \in {"mkdir", "chmod", "note"}

\* C12: environment preparation never makes the run fatal.  A failure of
\* fs.mkdir or fs.chmod on any of the three directories is caught for that
\* directory, the loop goes on with the next directory, every directory has
\* been attempted when ensureDirectoriesExist returns, and the run then
\* proceeds to the browser launch with statusCode 200, message "Success" and
\* no StepResult.
C12_EnvironmentPreparationNonFatal ==
    /\ [][InEnvironmentPreparation =>
            /\ pc' \in {"mkdir", "chmod", "note", "executablePath"}
            /\ dirIdx' \in {dirIdx, dirIdx + 1}
            /\ statusCode' = statusCode /\ message' = message
            /\ testResults' = testResults]_vars
    /\ [][pc = "note" =>
            /\ dirIdx' = dirIdx + 1
            /\ pc' = IF dirIdx < 3 THEN "mkdir" ELSE "executablePath"]_vars
    /\ [](pc = "mkdir" => dirIdx \in 1..3)
    /\ [](pc = "executablePath" =>
            /\ dirIdx = 4
            /\ statusCode = 200 /\ message = "Success" /\ testResults = <<>>)
    /\ (pc = "note") ~> (pc = "executablePath")

\* The failure on the second directory has been caught; the third is pending.
C12_Witness == pc = "note" /\ dirIdx = 2 /\ statusCode = 200

\* ------------------------------------------------------------------ C13
CaptureSucceeded ==
    CallsWhere(LAMBDA c : c.op = "screenshot" /\ c.result = "ok") # {}

UploadSucceeded == CallsWhere(LAMBDA c : c.op = "send" /\ c.result = "ok") # {}

\* C13: screenshotUrl is non-null exactly when both the capture and the
\* upload of this run completed successfully; it is assigned at most once;
\* the report carries it, and every report with statusCode 500 carries null.
C13_ArtifactIffCaptureAndUpload ==
    /\ [](screenshotUrl # NULL <=> (CaptureSucceeded /\ UploadSucceeded))
    /\ [][screenshotUrl # NULL => screenshotUrl' = screenshotUrl]_vars
    /\ [](Returned =>
            /\ response[1].body.screenshotUrl = screenshotUrl
            /\ response[1].statusCode = 500 =>
                  response[1].body.screenshotUrl = NULL)

\* A 500 report whose capture succeeded and whose upload failed.
C13_Witness ==
    /\ Returned
    /\ CaptureSucceeded
    /\ ~UploadSucceeded
    /\ \E i \in DOMAIN calls : calls[i].op = "send"
    /\ response[1].statusCode = 500
    /\ response[1].body.screenshotUrl = NULL

\* ------------------------------------------------------------------ C14
\* What the outcomes of the collaborator calls alone determine: the status,
\* the message and the names and statuses of the StepResults.
OutcomeStatus == IF StageFailures = {} THEN 200 ELSE 500

OutcomeMessage ==
    IF StageFailures = {} THEN "Success"
    ELSE "Fatal error: " \o RaisedMessage(calls[CHOOSE i \in StageFailures : TRUE])

Entry(n, st) == <<n, st>>

Succeeded(op) == CallsWhere(LAMBDA c : c.op = op /\ c.result = "ok") # {}

Settled(op) == CallsWhere(LAMBDA c : c.op = op /\ c.result # "throw") # {}

RECURSIVE OutcomeChecks(_)
OutcomeChecks(k) ==
    IF k = 0 THEN <<>>
    ELSE OutcomeChecks(k - 1) \o
         (IF ProbeCalls(k) = {} THEN <<>>
          ELSE <<Entry(Checks[k].name,
                       IF FailedProbeCalls(k) = {} THEN "SUCCESS" ELSE "FAILURE")>>)

OutcomeEntries ==
    (IF Succeeded("goto")
        THEN <<Entry("Navigate to Aegean Air website", "SUCCESS")>> ELSE <<>>)
    \o (IF Settled("waitForSelector")
        THEN <<Entry("Locate the booking component", "SUCCESS")>> ELSE <<>>)
    \o (IF Succeeded("send")
        THEN <<Entry("Capture a screenshot of the component", "SUCCESS")>> ELSE <<>>)
    \o OutcomeChecks(Len(Checks))
    \o (IF ProbeCalls(Len(Checks)) # {}
        THEN <<Entry(SummaryName, "SUCCESS")>> ELSE <<>>)
    \o (IF StageFailures # {} THEN <<Entry(FatalName, "FAILURE")>> ELSE <<>>)

\* C14: the statusCode, the message and the sequence of StepResult names and
\* statuses of a report are determined by the success/failure outcomes of the
\* collaborator calls alone, whatever the clock readings (timestamps, timings,
\* generated artifact name): two runs with the same outcomes agree on them.
C14_ReportDeterminedByOutcomes ==
    (impl = "part_001" /\ Returned) =>
        /\ response[1].statusCode = OutcomeStatus
        /\ response[1].body.message = OutcomeMessage
        /\ [i \in DOMAIN Report |-> Entry(Report[i].name, Report[i].status)]
              = OutcomeEntries

\* A report whose timings are not all zero, with a failed check.
C14_Witness ==
    /\ impl = "part_001"
    /\ Returned
    /\ FailedProbeCalls(4) # {}
    /\ response[1].body.totalExecutionTimeMs > 0
    /\ Report[1].executionTimeMs > 0

\* ------------------------------------------------------------------ C15
\* The pieces of `name` from the i-th to the j-th.
Pieces(name, i, j) == SubSeq(name, i, j)

\* ts is an ISO timestamp with every ":" and "." replaced by "-".
IsSafeTimestamp(ts) ==
    \E t \in 0..MaxClock :
       /\ Len(ts) = Len(toISOString(t))
       /\ \A i \in DOMAIN ts :
             ts[i] = IF toISOString(t)[i] \in {":", "."} THEN "-"
                     ELSE toISOString(t)[i]

\* The fixed text the handler puts before the timestamp.
NameStem == IF impl = "index" THEN <<"", "-aegean-flight-booking-">>
            ELSE <<"aegean-flight-booking-">>

TheBucket == IF env.AWS_S3_BUCKET = NULL THEN "technical-playwright-result"
             ELSE env.AWS_S3_BUCKET

\* The key of the upload is screenshots/{name} and the URL is
\* https://{bucket}.s3.amazonaws.com/ followed by that key.
UrlAndKeyAgree ==
    /\ screenshotUrl =
          "https://" \o TheBucket \o ".s3.amazonaws.com/"
              \o "screenshots/" \o Join(filename)
    /\ \E i \in DOMAIN calls :
          /\ calls[i].op = "send"
          /\ calls[i].result = "ok"
          /\ calls[i].target = TheBucket \o "/" \o "screenshots/" \o Join(filename)

DeclaredProbes ==
    <<<<1, 1>>, <<2, 1>>, <<3, 1>>, <<3, 2>>, <<4, 1>>, <<4, 2>>,
      <<5, 1>>, <<5, 2>>>>

\* The calls of the j-th expect() of the k-th try block.
ProbeCall(k, j) ==
    CallsWhere(LAMBDA c : /\ c.op = Checks[k].probes[j].op
                          /\ c.target = Checks[k].probes[j].locator)

\* The probe calls were made in the declared order.
ProbesInDeclaredOrder ==
    \A p, q \in DOMAIN DeclaredProbes :
       \A i \in ProbeCall(DeclaredProbes[p][1], DeclaredProbes[p][2]) :
          \A j \in ProbeCall(DeclaredProbes[q][1], DeclaredProbes[q][2]) :
             p < q => i < j

\* C16 as stated: the battery probes all eight declared sub-elements in the
\* declared order, whatever the outcome of the probes before: a failed origin
\* probe does not skip the destination probe, and so on.
C16_EightIndependentProbes ==
    (impl = "part_001" /\ Returned /\ BatteryEntered) =>
        /\ ProbesInDeclaredOrder
        /\ \A p \in DOMAIN DeclaredProbes :
              Cardinality(ProbeCall(DeclaredProbes[p][1], DeclaredProbes[p][2])) = 1

\* C16 (amended): the battery runs five checks in the declared order (trip
\* type, passengers and class, origin and destination, departure and return
\* dates, search button), each check is attempted and reported with one
\* entry whatever the other checks did, and the eight probes are made in the
\* declared order; within a check the probes share one try block, so the
\* second probe of a check (destination, return date, enabled state) is made
\* exactly when the first one (origin, departure date, visibility) passed.
C16_FiveChecksProbedInOrder ==
    (impl = "part_001" /\ Returned /\ BatteryEntered) =>
        /\ ProbesInDeclaredOrder
        /\ \A k \in DOMAIN Checks :
              /\ Cardinality(ProbeCall(k, 1)) = 1
              /\ Cardinality(EntriesNamed(Report, Checks[k].name)) = 1
              /\ Len(Checks[k].probes) = 2 =>
                    /\ Cardinality(ProbeCall(k, 2)) <= 1
                    /\ ProbeCall(k, 2) # {} <=>
                          \A i \in ProbeCall(k, 1) : calls[i].result = "ok"
        /\ Cardinality({i \in DOMAIN Report : Report[i].name \in CheckNames}) = 5

\* A returned run whose origin probe failed: the destination probe was not
\* made and the date and search-button checks were.
C16_Witness ==
    /\ impl = "part_001"
    /\ Returned
    /\ \E i \in ProbeCall(3, 1) : calls[i].result = "throw"
    /\ ProbeCall(3, 2) = {}
    /\ ProbeCall(4, 2) # {}
    /\ ProbeCall(5, 1) # {}

\* ------------------------------------------------------------------ C17
\* The stage calls of C17 in pipeline order.
StageOrder == <<"launch", "goto", "waitForSelector", "screenshot", "send">>

CallsOf(op) == CallsWhere(LAMBDA c : c.op = op)

\* C17: at every moment of a run, each of playwright.launch, page.goto,
\* waitForSelector, the element screenshot and the S3 put has been invoked at
\* most once; each was invoked only after every preceding one was invoked and
\* succeeded; every expect() of the validation battery was invoked only
\* after the upload succeeded; and after one of them failed no call but
\* browser.close is made (no retry, no later stage).
C17_StagesOnceInOrder ==
    /\ \A q \in DOMAIN StageOrder :
          /\ Cardinality(CallsOf(StageOrder[q])) <= 1
          /\ \A j \in CallsOf(StageOrder[q]) :
                \A p \in 1..(q - 1) :
                   \E i \in CallsOf(StageOrder[p]) :
                      i < j /\ calls[i].result = "ok"
    /\ \A j \in AnyProbeCalls :
          \E i \in CallsOf("send") : i < j /\ calls[i].result = "ok"
    /\ \A i \in DOMAIN calls :
          (calls[i].op \in {StageOrder[q] : q \in DOMAIN StageOrder}
              /\ calls[i].result # "ok")
          => \A j \in DOMAIN calls :
                j > i => calls[j].op = "close"

\* The upload failed after launch, navigation, location and capture
\* succeeded, and the handler has returned.
C17_Witness ==
    /\ pc = "done"
    /\ \E i \in CallsOf("send") : calls[i].result = "throw"
    /\ \E i \in CallsOf("screenshot") : calls[i].result = "ok"

\* ------------------------------------------------------------------ C18
\* The operations that need the browser session.
BrowserDependent(c) ==
    \/ c.op \in {"newContext", "newPage", "goto", "waitForSelector", "query",
                 "screenshot"}
    \/ \E k \in DOMAIN Checks : \E j \in DOMAIN Checks[k].probes :
          c.op = Checks[k].probes[j].op /\ c.target = Checks[k].probes[j].locator

\* C18: at every moment of every run, on the success path and on every
\* failure path, no browser-dependent operation (newContext, newPage, goto,
\* waitForSelector, page.$, screenshot, any validation probe) was performed
\* after browser.close was invoked, and the handler makes no
\* browser-dependent call once it has passed the finally block.
C18_NothingAfterClose ==
    /\ \A i \in CallsWhere(IsClose) :
          \A j \in DOMAIN calls : j > i => ~BrowserDependent(calls[j])
    /\ CallsWhere(IsClose) # {} => pc \in {"respond", "done"}

\* A returned run of the whole pipeline: the session was closed after the
\* last probe of the battery.
C18_Witness ==
    /\ pc = "done"
    /\ CallsWhere(IsClose) # {}
    /\ ProbeCall(5, 2) # {}
    /\ \A i \in CallsWhere(IsClose) : \A j \in ProbeCall(5, 2) : j < i

\* ------------------------------------------------------------------ C19
\* The positions of the handler from INIT to CAPTURED: environment
\* preparation, launch, navigation, location, capture and upload.
StagePositions ==
    {"start", "mkdir", "chmod", "note", "executablePath", "launch",
     "newContext", "newPage", "goto", "waitForSelector", "query",
     "screenshot", "access", "readFile", "send"}

\* This step is the call of browser.close().
ClosesNow == Len(calls') = Len(calls) + 1 /\ IsClose(calls'[Len(calls')])

\* This step enters the catch block of the handler (FATAL).
EntersFatal == statusCode # CatchStatusCode /\ statusCode' = CatchStatusCode

\* This step assembles the response, after the release of a launched
\* browser, from the status, message and StepResults as they stand.
ReportsAfterRelease ==
    /\ pc = "respond"
    /\ (CallsWhere(LaunchReturned) # {} => CallsWhere(IsClose) # {})
    /\ response'[1].statusCode = statusCode
    /\ response'[1].body.message = message
    /\ (impl = "part_001" => response'[1].body.testResults = testResults)

\* This step leaves the content of the report as it is.
ReportFinal ==
    /\ testResults' = testResults
    /\ statusCode' = statusCode
    /\ message' = message
    /\ screenshotUrl' = screenshotUrl

\* C19 as stated: REPORTED precedes CLOSED, that is, whenever browser.close
\* has been invoked the response was assembled before; and a run with a
\* fatal error made no validation probe.
C19_ReportedBeforeClosed ==
    /\ CallsWhere(IsClose) # {} => Len(response) = 1
    /\ statusCode = CatchStatusCode => AnyProbeCalls = {}

\* C19 (amended): every run is one-directional with CLOSED before REPORTED:
\* the StepResults, the status and the message are final when the finally
\* block is entered, the session is released there, and the response that
\* carries them is assembled after the release, on the normal path and on
\* the FATAL short-circuit alike; FATAL is entered only from the positions
\* INIT through CAPTURED, never from the battery or later.
C19_ClosedBeforeReported ==
    /\ [][ClosesNow => (pc = "finally" /\ response = <<>> /\ response' = <<>>)]_vars
    /\ [][response' # response => ReportsAfterRelease]_vars
    /\ [][(pc \in {"finally", "respond", "done"}) => ReportFinal]_vars
    /\ [][EntersFatal => (pc \in StagePositions /\ pc' = "finally")]_vars
    /\ [](statusCode = CatchStatusCode => AnyProbeCalls = {})

\* A fatal run whose session was released and whose response is assembled.
C19_Witness ==
    /\ Returned
    /\ response[1].statusCode = CatchStatusCode
    /\ CallsWhere(IsClose) # {}

\* ------------------------------------------------------------------ C20
\* The calls that failed before a browser handle existed.
LaunchFailed ==
    CallsWhere(LAMBDA c : c.op \in {"executablePath", "launch"} /\ c.result = "throw")

\* The calls that failed on the launched browser before navigation.
ContextOrPageFailed ==
    CallsWhere(LAMBDA c : c.op \in {"newContext", "newPage"} /\ c.result = "throw")

\* C20: browser.close is invoked at most once per run and, when the finally
\* block has been passed, it has been invoked if and only if
\* playwright.launch returned a browser handle: no close is attempted when
\* resolving the executable path or the launch failed, and the browser is
\* closed when the launch succeeded and creating the context or the page
\* failed.  The handle is set exactly by a returning launch and never
\* cleared.
C20_ClosedIffLaunched ==
    /\ Cardinality(CallsWhere(IsClose)) <= 1
    /\ browser # NULL <=> CallsWhere(LaunchReturned) # {}
    /\ CallsWhere(IsClose) # {} => browser # NULL
    /\ pc \in {"respond", "done"} =>
          /\ CallsWhere(IsClose) # {} <=> browser # NULL
          /\ LaunchFailed # {} => CallsWhere(IsClose) = {}
          /\ ContextOrPageFailed # {} => CallsWhere(IsClose) # {}

\* A run past its finally block that failed to create the context or the
\* page on a launched browser, and closed it.
C20_Witness ==
    /\ pc = "done"
    /\ ContextOrPageFailed # {}
    /\ browser # NULL
    /\ Cardinality(CallsWhere(IsClose)) = 1

\* ------------------------------------------------------------------ C21
\* The SUCCESS entries of the location stage in a report.
LocateSuccesses(results) ==
    {i \in DOMAIN results : /\ results[i].name = "Locate the booking component"
                            /\ results[i].status = "SUCCESS"}

\* C21: the report of a returned run contains a SUCCESS "Locate the booking
\* component" entry only if waitForSelector resolved a non-null element
\* handle; a run whose location yields no handle has no SUCCESS location
\* entry.
C21_LocateSuccessOnlyWithHandle ==
    (impl = "part_001" /\ Returned) =>
        (LocateSuccesses(Report) # {} => bookingComponent # NULL)

\* ------------------------------------------------------------------ C22
\* The artifact name as a function of the handler and the timestamp alone.
NameAt(handler, t) ==
    (IF handler = "index" THEN "-aegean-flight-booking-"
     ELSE "aegean-flight-booking-")
        \o "2025-07-24T10-30-45-" \o Pad3(t) \o "Z.png"

\* C22: the artifact filename, the storage key and the artifact URL do not
\* depend on the PREFIX environment value: they are a function of the
\* bucket and the timestamp alone, so two runs that differ only in PREFIX
\* (unset or set to any value) and take the same timestamp upload under the
\* same key and return the same URL.
C22_NameIgnoresPrefix ==
    /\ filename # <<>> => \E t \in 0..MaxClock : Join(filename) = NameAt(impl, t)
    /\ \A i \in CallsOf("send") :
          \E t \in 0..MaxClock :
             /\ calls[i].target = TheBucket \o "/screenshots/" \o NameAt(impl, t)
             /\ Join(filename) = NameAt(impl, t)
             /\ screenshotUrl # NULL =>
                   screenshotUrl = "https://" \o TheBucket
                       \o ".s3.amazonaws.com/screenshots/" \o NameAt(impl, t)

\* An upload of the index.ts handler with PREFIX set.
C22_Witness ==
    /\ impl = "index"
    /\ env.PREFIX = "qa"
    /\ screenshotUrl # NULL
    /\ CallsOf("send") # {}

\* ------------------------------------------------------------------ C23
\* This step ends the validation battery (VALIDATED is reached).
BatteryEnds == pc = "validate" /\ pc' = "finally"

\* The total is the clock reading taken when the battery ended, which is not
\* before the end of the battery that the summary entry records, minus the
\* reading taken at the start of the run.
TotalIsRunTime ==
    /\ totalExecutionTimeMs' = clock' - startTime
    /\ clock' >= stageStart + Last(testResults').executionTimeMs
    /\ statusCode' = 200

\* C23: in every run that reaches VALIDATED the report's total elapsed
\* milliseconds is the time from the start of the run to the end of the
\* validation battery; it is 0 until then, and in every fatal run the
\* report carries the initial value 0, however much time elapsed before the
\* failure.
C23_TotalElapsed ==
    /\ [][BatteryEnds => TotalIsRunTime]_vars
    /\ [][~BatteryEnds => totalExecutionTimeMs' = totalExecutionTimeMs]_vars
    /\ []((pc \notin {"finally", "respond", "done"}) => totalExecutionTimeMs = 0)
    /\ []((impl = "part_001" /\ Returned) =>
            /\ response[1].body.totalExecutionTimeMs = totalExecutionTimeMs
            /\ response[1].statusCode = 500 =>
                  response[1].body.totalExecutionTimeMs = 0
            /\ response[1].statusCode = 200 =>
                  /\ Last(Report).name = "Booking form validation"
                  /\ response[1].body.totalExecutionTimeMs >=
                        (stageStart - startTime) + Last(Report).executionTimeMs)

\* A fatal run that returned after time had elapsed: the navigation took
\* at least one millisecond and the total is 0.
C23_Witness ==
    /\ impl = "part_001"
    /\ Returned
    /\ response[1].statusCode = 500
    /\ response[1].body.totalExecutionTimeMs = 0
    /\ \E i \in DOMAIN Report :
          /\ Report[i].name = "Navigate to Aegean Air website"
          /\ Report[i].executionTimeMs >= 1

\* ------------------------------------------------------------------ C24
\* The entry of a report that tells the outcome of the stage `op`: the
\* stage's own entry when the call returned, the last (fatal-error) entry
\* when it threw.
StageName(op) == IF op = "goto" THEN "Navigate to Aegean Air website"
                 ELSE "Locate the booking component"

OutcomeEntry(results, op) ==
    IF \E i \in CallsOf(op) : calls[i].result = "throw"
    THEN Last(results)
    ELSE results[CHOOSE i \in DOMAIN results : results[i].name = StageName(op)]

Timed(entry) == "executionTimeMs" \in DOMAIN entry

\* C24 as stated: in every run in which navigation (respectively location)
\* was attempted, the StepResult that reports the outcome of that stage,
\* success or failure, carries an elapsed-time value.
C24_OutcomeAlwaysTimed ==
    (impl = "part_001" /\ Returned) =>
        \A op \in {"goto", "waitForSelector"} :
           CallsOf(op) # {} => Timed(OutcomeEntry(Report, op))

\* C24 (amended): navigation and location record elapsed time when their
\* call returns: the report then has exactly one entry of that stage, which
\* carries executionTimeMs, a non-negative number of milliseconds not above
\* the time the run has taken.  When the call throws, the report has no
\* entry of that stage and the outcome is told by the fatal-error entry,
\* which has name, status and details and carries no elapsed time.
C24_TimedWhenReturned ==
    (impl = "part_001" /\ Returned) =>
        \A op \in {"goto", "waitForSelector"} :
           /\ (\E i \in CallsOf(op) : calls[i].result # "throw") =>
                 /\ Cardinality(EntriesNamed(Report, StageName(op))) = 1
                 /\ \A i \in EntriesNamed(Report, StageName(op)) :
                       /\ Timed(Report[i])
                       /\ Report[i].executionTimeMs \in 0..(clock - startTime)
           /\ (\E i \in CallsOf(op) : calls[i].result = "throw") =>
                 /\ EntriesNamed(Report, StageName(op)) = {}
                 /\ DOMAIN Last(Report) = {"name", "status", "details"}
                 /\ Last(Report).name = "Fatal error during execution"

\* A returned run whose navigation took time and whose location timed out.
C24_Witness ==
    /\ impl = "part_001"
    /\ Returned
    /\ \E i \in CallsOf("waitForSelector") : calls[i].result = "throw"
    /\ \E i \in EntriesNamed(Report, "Navigate to Aegean Air website") :
          Timed(Report[i]) /\ Report[i].executionTimeMs >= 1

\* ------------------------------------------------------------------ C25
\* C25: when two invocations interleave at their awaits and share /tmp, the
\* bytes each invocation reads from screenshotPath and uploads are the bytes
\* that same invocation captured.
C25_UploadsOwnCapture ==
    /\ fileContent # NULL => fileContent = Png("handler")
    /\ Succeeded("send") => fileContent = Png("handler")
    /\ peer.fileContent # NULL => peer.fileContent = Png("peer")
    /\ peer.uploaded # NULL => peer.uploaded = Png("peer")

=============================================================================
